---------------------------- MODULE Spec2Model ----------------------------
(***************************************************************************)
(* A model of proliphix.py: the OID table, the PDP device proxy with its   *)
(* cache (_data), the bulk read (update), the field write (_set), the      *)
(* heating-setback setter and the cached-field accessors.                  *)
(*                                                                         *)
(* Python strings are TLA+ strings, taken apart with Len and SubSeq, so    *)
(* that splitting, prefix stripping, joining and form encoding are         *)
(* computed character by character as the code computes them.              *)
(***************************************************************************)
EXTENDS Integers, Sequences, FiniteSets, TLC

(***************************************************************************)
(* Bounds of the model.                                                    *)
(***************************************************************************)
\* calls made in one behaviour
MaxCalls == 2
\* lines in one response body where the accessors are exercised
MaxReadLines == 1
\* '&'-separated lines in one response body
MaxLines == 2
\* keyword arguments given to one _set call
MaxPairs == 2

(***************************************************************************)
(* Python values: a str, an int, a float (held in tenths, since every      *)
(* float the accessors produce is a whole number divided by 10), or None.  *)
(***************************************************************************)
PyStr(s) == [t |-> "str", s |-> s, n |-> 0]
PyInt(n) == [t |-> "int", s |-> "", n |-> n]
PyFloatTenths(n) == [t |-> "float", s |-> "", n |-> n]
None == [t |-> "None", s |-> "", n |-> 0]

\* Python truthiness of None, str and int
Truthy(v) ==
    CASE v.t = "None" -> FALSE
      [] v.t = "str" -> v.s # ""
      [] OTHER -> v.n # 0

(***************************************************************************)
(* String primitives.                                                      *)
(***************************************************************************)
CharAt(s, i) == SubSeq(s, i, i)

\* s[k:] for k >= 0
SliceFrom(s, k) == SubSeq(s, k + 1, Len(s))

\* the index of the first sep at or after position i, 0 when there is none
RECURSIVE FindFrom(_, _, _)
FindFrom(s, sep, i) ==
    IF i > Len(s) THEN 0
    ELSE IF CharAt(s, i) = sep THEN i
    ELSE FindFrom(s, sep, i + 1)

\* s.split(sep) for a one-character sep: never empty, "" gives <<"">>
RECURSIVE Split(_, _)
Split(s, sep) ==
    LET i == FindFrom(s, sep, 1) IN
    IF i = 0 THEN << s >>
    ELSE << SubSeq(s, 1, i - 1) >> \o Split(SubSeq(s, i + 1, Len(s)), sep)

\* sep.join(parts)
RECURSIVE Join(_, _)
Join(parts, sep) ==
    IF Len(parts) = 0 THEN ""
    ELSE IF Len(parts) = 1 THEN parts[1]
    ELSE parts[1] \o sep \o Join(Tail(parts), sep)

Digit(d) == CharAt("0123456789", d + 1)

\* str(n) of a natural number
RECURSIVE NatToStr(_)
NatToStr(n) == IF n < 10 THEN Digit(n) ELSE NatToStr(n \div 10) \o Digit(n % 10)

\* str(n) of an int
IntToStr(n) == IF n < 0 THEN "-" \o NatToStr(-n) ELSE NatToStr(n)

DigitValue(c) == CHOOSE d \in 0..9 : Digit(d) = c

IsDigits(s) == Len(s) > 0 /\ \A i \in 1..Len(s) : \E d \in 0..9 : Digit(d) = CharAt(s, i)

RECURSIVE DigitsToNat(_)
DigitsToNat(s) ==
    IF Len(s) = 0 THEN 0
    ELSE 10 * DigitsToNat(SubSeq(s, 1, Len(s) - 1)) + DigitValue(CharAt(s, Len(s)))

\* the strings int() and float() both accept among those the model draws:
\* an optional sign followed by decimal digits
IsIntLiteral(s) ==
    IF Len(s) > 0 /\ CharAt(s, 1) = "-" THEN IsDigits(SliceFrom(s, 1)) ELSE IsDigits(s)

IntLiteral(s) ==
    IF CharAt(s, 1) = "-" THEN 0 - DigitsToNat(SliceFrom(s, 1)) ELSE DigitsToNat(s)

(***************************************************************************)
(* Dictionaries are functions on their key set.                            *)
(***************************************************************************)
EmptyDict == [k \in {} |-> None]

\* d.setdefault(k, v): a key already held keeps its value
SetItemIfAbsent(d, k, v) == [x \in (DOMAIN d) \cup {k} |-> IF x \in DOMAIN d THEN d[x] ELSE v]

\* d[k] = v
SetItem(d, k, v) == [x \in (DOMAIN d) \cup {k} |-> IF x = k THEN v ELSE d[x]]

(***************************************************************************)
(* The OID table, in the order the dict literal lists it.                  *)
(***************************************************************************)
OIDS ==
    << [oid |-> "1.2",    value |-> "DevName"],
       [oid |-> "4.1.13", value |-> "AverageTemp"],
       [oid |-> "4.1.4",  value |-> "FanState"],
       [oid |-> "4.1.5",  value |-> "SetbackHeat"],
       [oid |-> "4.1.6",  value |-> "SetbackCool"],
       [oid |-> "4.1.2",  value |-> "HvacState"],
       [oid |-> "4.1.11", value |-> "CurrentClass"],
       [oid |-> "4.5.1",  value |-> "Heat1Usage"],
       [oid |-> "4.5.3",  value |-> "Cool1Usage"],
       [oid |-> "4.5.5",  value |-> "FanUsage"],
       [oid |-> "4.5.6",  value |-> "LastUsageReset"] >>

OidKeys == {OIDS[i].oid : i \in DOMAIN OIDS}
OidNames == {OIDS[i].value : i \in DOMAIN OIDS}

\* OIDS.get(key): the field name as a str, or None
OIDS_get(key) ==
    IF \E i \in DOMAIN OIDS : OIDS[i].oid = key
    THEN PyStr(OIDS[CHOOSE i \in DOMAIN OIDS : OIDS[i].oid = key].value)
    ELSE None

\* the loop of _get_oid from entry i on: the first entry whose value is name
RECURSIVE get_oid_from(_, _)
get_oid_from(name, i) ==
    IF i > Len(OIDS) THEN None
    ELSE IF OIDS[i].value = name THEN PyStr(OIDS[i].oid)
    ELSE get_oid_from(name, i + 1)

\* the search comparing the identifiers, not the field names, with name
get_oid_by_key(name) ==
    IF \E i \in DOMAIN OIDS : OIDS[i].oid = name THEN PyStr(name) ELSE None

_get_oid(name) == get_oid_from(name, 1)

_all_oids == Join([i \in DOMAIN OIDS |-> "OID" \o OIDS[i].oid \o "="], "&")


(***************************************************************************)
(* The inputs the operations are called with.                              *)
(***************************************************************************)
\* the host the proxy is constructed with
Host == "nt10e"

\* the texts a response line is drawn from: pairs of known OIDs (one of
\* them twice with different values, one with an empty value), a pair of an
\* OID the table does not hold, and a line without '='
Lines ==
    { "OID1.2=Kitchen", "OID4.1.13=712", "OID4.1.13=", "OID4.1.4=2",
      "OID9.9=1", "garbage" }

\* no line at all joins to the empty body, which splits into one empty line
LineSeqs == UNION {[1..k -> Lines] : k \in 0..MaxLines}

\* the response bodies r.text the device may answer with
Responses == {Join(ls, "&") : ls \in LineSeqs}

\* the lines of the responses the accessors are exercised on: for every
\* field an accessor reads, a value it can interpret and one it cannot, or
\* that it interprets differently
ReadLines ==
    { "OID1.2=Kitchen", "OID4.1.13=712", "OID4.1.13=", "OID4.1.5=683",
      "OID4.1.2=3", "OID4.1.2=Heat", "OID4.1.4=2", "OID4.1.4=1" }

ReadResponses == {Join(ls, "&") : ls \in UNION {[1..k -> ReadLines] : k \in 0..MaxReadLines}}

\* what requests.post does in update: it returns a response, or it raises
NoResponse == [ok |-> FALSE, text |-> ""]
PostResults == {[ok |-> TRUE, text |-> t] : t \in Responses} \cup {NoResponse}
ReadPostResults == {[ok |-> TRUE, text |-> t] : t \in ReadResponses} \cup {NoResponse}

\* text.split('&') and line.split('=') of every text and line drawn,
\* computed once
SplitAmp == [t \in Responses \cup ReadResponses |-> Split(t, "&")]
SplitEq == [l \in Lines \cup ReadLines |-> Split(l, "=")]

\* the degree values the setter is called with, in hundredths of a degree
\* (68.3, 68.05, 68.06, 0.0 and -0.55): for every float val with at most two
\* decimals between -200 and 300, val * 10 in binary floating point
\* truncates to the same integer as the exact product
Vals == {6830, 6805, 6806, 0, -55}

KwNames == {"SetbackCool", "Bogus"}
KwValues == {PyInt(700), PyStr("a b")}

\* keyword arguments, in call order; a keyword is given at most once
Kwargs ==
    UNION {{kw \in [1..k -> [key : KwNames, value : KwValues]] :
               \A i, j \in 1..k : i # j => kw[i].key # kw[j].key} : k \in 0..MaxPairs}

\* the names _get_oid is asked for
LookupNames == OidNames \cup {"Bogus", "", "1.2"}

(***************************************************************************)
(* The state: the proxy's cache, the requests made of the transport, and   *)
(* a record of the last call with what it was given and what it answered.  *)
(***************************************************************************)
VARIABLES
    _data,      \* self._data
    nPost,      \* requests.post calls made so far
    sent,       \* the url and body of the latest requests.post call
    nUpdate,    \* update() calls made so far
    nWrite,     \* _set() calls and setback_heat assignments made so far
    nRead,      \* accessor reads and _get_oid calls made so far
    refreshed,  \* an update() has had a response to parse
    last        \* the latest call: its arguments, the cache and the request
                \* count before it, the exception it raised, what it returned

vars == << _data, nPost, sent, nUpdate, nWrite, nRead, refreshed, last >>

nCalls == nUpdate + nWrite + nRead

Call(op, exc, ret) ==
    [op |-> op, exc |-> exc, ret |-> ret, pre |-> _data, prePost |-> nPost,
     posted |-> FALSE, text |-> "", val |-> 0, kwargs |-> << >>, name |-> ""]

\* PDP.__init__
Init ==
    /\ _data = EmptyDict
    /\ nPost = 0
    /\ sent = [url |-> "", body |-> ""]
    /\ nUpdate = 0
    /\ nWrite = 0
    /\ nRead = 0
    /\ refreshed = FALSE
    /\ last = [op |-> "__init__", exc |-> "", ret |-> None, pre |-> EmptyDict,
               prePost |-> 0, posted |-> FALSE, text |-> "", val |-> 0,
               kwargs |-> << >>, name |-> ""]

(***************************************************************************)
(* update                                                                  *)
(***************************************************************************)
\* one pass of the loop body of update over one line
ParseLine(d, line) ==
    IF line = "" THEN [data |-> d, exc |-> ""]
    ELSE LET parts == SplitEq[line] IN
         IF Len(parts) # 2 THEN [data |-> d, exc |-> "ValueError"]
         ELSE LET const == OIDS_get(SliceFrom(parts[1], 3)) IN
              IF Truthy(const)
              THEN [data |-> SetItem(d, const.s, PyStr(parts[2])), exc |-> ""]
              ELSE [data |-> d, exc |-> ""]

\* the loop of update from line i on; an exception ends it
RECURSIVE ParseLines(_, _, _)
ParseLines(d, lines, i) ==
    IF i > Len(lines) THEN [data |-> d, exc |-> ""]
    ELSE LET r == ParseLine(d, lines[i]) IN
         IF r.exc # "" THEN r ELSE ParseLines(r.data, lines, i + 1)

\* update(), requests.post returning or raising as post says
update(post) ==
    /\ nCalls < MaxCalls
    /\ nUpdate' = nUpdate + 1
    /\ nPost' = nPost + 1
    /\ sent' = [url |-> "http://" \o Host \o "/get", body |-> _all_oids]
    /\ LET r == IF post.ok THEN ParseLines(_data, SplitAmp[post.text], 1)
                ELSE [data |-> _data, exc |-> "ConnectionError"]
       IN /\ _data' = r.data
          /\ refreshed' = (refreshed \/ post.ok)
          /\ last' = [Call("update", r.exc, None) EXCEPT !.posted = post.ok, !.text = post.text]
    /\ UNCHANGED << nWrite, nRead >>

(***************************************************************************)
(* _set and the setback_heat setter                                        *)
(***************************************************************************)
\* quote_plus of one character, for the characters the model's keys and
\* values are made of: letters, digits, '.', '-' and '_' are kept
QuoteChar(c) ==
    CASE c = " " -> "+"
      [] c = "&" -> "%26"
      [] c = "=" -> "%3D"
      [] OTHER -> c

RECURSIVE quote_plus(_)
quote_plus(s) ==
    IF Len(s) = 0 THEN "" ELSE QuoteChar(CharAt(s, 1)) \o quote_plus(SliceFrom(s, 1))

\* str(v)
py_str(v) == IF v.t = "str" THEN v.s ELSE IntToStr(v.n)

\* data[k] = v on a dict held as the sequence of its items in insertion order
ItemsSet(items, k, v) ==
    IF \E i \in DOMAIN items : items[i].k = k
    THEN [i \in DOMAIN items |-> IF items[i].k = k THEN [k |-> k, v |-> v] ELSE items[i]]
    ELSE Append(items, [k |-> k, v |-> v])

\* the first loop of _set from keyword i on
RECURSIVE set_data(_, _, _)
set_data(items, kwargs, i) ==
    IF i > Len(kwargs) THEN items
    ELSE LET oid == _get_oid(kwargs[i].key) IN
         set_data(IF Truthy(oid) THEN ItemsSet(items, "OID" \o oid.s, kwargs[i].value)
                  ELSE items,
                  kwargs, i + 1)

urlencode(items) ==
    Join([i \in DOMAIN items |-> quote_plus(items[i].k) \o "=" \o quote_plus(py_str(items[i].v))],
         "&")

\* the body _set posts
set_form_data(kwargs) == urlencode(set_data(<< >>, kwargs, 1)) \o "&submit=Submit"

set_url == "http://" \o Host \o "/pdp"

\* _set(**kwargs), the transport delivering the request or failing (~ok)
_set(kwargs, ok) ==
    /\ nCalls < MaxCalls
    /\ nWrite' = nWrite + 1
    /\ nPost' = nPost + 1
    /\ sent' = [url |-> set_url, body |-> set_form_data(kwargs)]
    /\ last' = [Call("_set", IF ok THEN "" ELSE "ConnectionError", None)
                   EXCEPT !.posted = ok, !.kwargs = kwargs]
    /\ UNCHANGED << _data, nUpdate, nRead, refreshed >>

\* round(val * 10): to the nearest integer, halves away from zero
round_times10(h) == IF h >= 0 THEN (h + 5) \div 10 ELSE 0 - ((5 - h) \div 10)

\* int(val * 10), val given in hundredths: int() truncates toward zero
int_times10(h) == IF h >= 0 THEN h \div 10 ELSE 0 - ((0 - h) \div 10)

\* self.setback_heat = val
setback_heat_setter(val, ok) ==
    /\ nCalls < MaxCalls
    /\ nWrite' = nWrite + 1
    /\ LET d == SetItem(_data, "SetbackHeat", PyInt(int_times10(val))) IN
       /\ _data' = d
       /\ sent' = [url |-> set_url,
                   body |-> set_form_data(<< [key |-> "SetbackHeat", value |-> d["SetbackHeat"]] >>)]
    /\ nPost' = nPost + 1
    /\ last' = [Call("setback_heat.setter", IF ok THEN "" ELSE "ConnectionError", None)
                   EXCEPT !.posted = ok, !.val = val]
    /\ UNCHANGED << nUpdate, nRead, refreshed >>

(***************************************************************************)
(* The accessors                                                           *)
(***************************************************************************)
\* d.get(k, "0"): a missing key answers a default
GetItemOrDefault(d, k) ==
    IF k \in DOMAIN d THEN [exc |-> "", v |-> d[k]] ELSE [exc |-> "", v |-> PyStr("0")]

\* d[k]
GetItem(d, k) ==
    IF k \in DOMAIN d THEN [exc |-> "", v |-> d[k]] ELSE [exc |-> "KeyError", v |-> None]

\* int(v) and float(v), which agree on the values the model draws
ToNumber(v) ==
    IF v.t = "int" THEN [exc |-> "", n |-> v.n]
    ELSE IF IsIntLiteral(v.s) THEN [exc |-> "", n |-> IntLiteral(v.s)]
    ELSE [exc |-> "ValueError", n |-> 0]

\* float(self._data[field]) / 10
TenthsOf(d, field) ==
    LET x == GetItem(d, field) IN
    IF x.exc # "" THEN [exc |-> x.exc, ret |-> None]
    ELSE LET f == ToNumber(x.v) IN
         IF f.exc # "" THEN [exc |-> f.exc, ret |-> None]
         ELSE [exc |-> "", ret |-> PyFloatTenths(f.n)]

cur_temp_get(d) == TenthsOf(d, "AverageTemp")

setback_heat_get(d) == TenthsOf(d, "SetbackHeat")

hvac_state_get(d) ==
    LET x == GetItem(d, "HvacState") IN
    IF x.exc # "" THEN [exc |-> x.exc, ret |-> None]
    ELSE LET f == ToNumber(x.v) IN
         IF f.exc # "" THEN [exc |-> f.exc, ret |-> None]
         ELSE [exc |-> "", ret |-> PyInt(f.n)]

name_get(d) ==
    LET x == GetItem(d, "DevName") IN
    IF x.exc # "" THEN [exc |-> x.exc, ret |-> None] ELSE [exc |-> "", ret |-> x.v]

fan_state_get(d) ==
    LET x == GetItem(d, "FanState") IN
    IF x.exc # "" THEN [exc |-> x.exc, ret |-> None]
    ELSE [exc |-> "", ret |-> IF x.v = PyStr("2") THEN PyStr("On") ELSE PyStr("Off")]

\* an accessor that refreshes by itself when its field is not cached
ReadRefreshing(op, r) ==
    /\ nCalls < MaxCalls
    /\ nRead' = nRead + 1
    /\ nPost' = IF r.exc = "KeyError" THEN nPost + 1 ELSE nPost
    /\ last' = Call(op, r.exc, r.ret)
    /\ UNCHANGED << _data, sent, nUpdate, nWrite, refreshed >>

\* a read of a property: the value its getter returns, or what it raises
Read(op, r) ==
    /\ nCalls < MaxCalls
    /\ nRead' = nRead + 1
    /\ last' = Call(op, r.exc, r.ret)
    /\ UNCHANGED << _data, nPost, sent, nUpdate, nWrite, refreshed >>

cur_temp == Read("cur_temp", cur_temp_get(_data))

setback_heat == Read("setback_heat", setback_heat_get(_data))

hvac_state == Read("hvac_state", hvac_state_get(_data))

name == Read("name", name_get(_data))

fan_state == Read("fan_state", fan_state_get(_data))

\* a call of the module function _get_oid
lookup(n) ==
    /\ nCalls < MaxCalls
    /\ nRead' = nRead + 1
    /\ last' = [Call("_get_oid", "", _get_oid(n)) EXCEPT !.name = n]
    /\ UNCHANGED << _data, nPost, sent, nUpdate, nWrite, refreshed >>

Next ==
    \/ \E post \in PostResults : update(post)
    \/ \E kwargs \in Kwargs, ok \in BOOLEAN : _set(kwargs, ok)
    \/ \E val \in Vals, ok \in BOOLEAN : setback_heat_setter(val, ok)
    \/ cur_temp
    \/ setback_heat
    \/ hvac_state
    \/ name
    \/ fan_state
    \/ \E n \in LookupNames : lookup(n)

Spec == Init /\ [][Next]_vars

\* the cache filled by update and by the setter, and read by the accessors
NextRead ==
    \/ \E post \in ReadPostResults : update(post)
    \/ \E val \in Vals, ok \in BOOLEAN : setback_heat_setter(val, ok)
    \/ cur_temp
    \/ setback_heat
    \/ hvac_state
    \/ name
    \/ fan_state

SpecRead == Init /\ [][NextRead]_vars

(***************************************************************************)
(* What the properties below speak of.                                     *)
(***************************************************************************)
ReadOps == {"cur_temp", "setback_heat", "hvac_state", "name", "fan_state"}

\* the field each accessor reads
FieldOf(op) ==
    CASE op = "cur_temp" -> "AverageTemp"
      [] op = "setback_heat" -> "SetbackHeat"
      [] op = "hvac_state" -> "HvacState"
      [] op = "name" -> "DevName"
      [] op = "fan_state" -> "FanState"

\* the lines of the response the latest update() was answered with
LastLines == Split(last.text, "&")

\* the latest call was an update() whose request was answered
Answered == last.op = "update" /\ last.posted

NoSeparator(line) == FindFrom(line, "=", 1) = 0

\* line is OID<id>=<value>, whatever the id
IsPair(line) == Len(Split(line, "=")) = 2 /\ SubSeq(line, 1, 3) = "OID"

\* line is OID<id>=<value> with <id> the table's identifier of field nm
Names(line, nm) ==
    /\ IsPair(line)
    /\ \E i \in DOMAIN OIDS :
          OIDS[i].value = nm /\ Split(line, "=")[1] = "OID" \o OIDS[i].oid

Latest(idx) == CHOOSE i \in idx : \A j \in idx : j <= i

\* cache d is cache pre with, for every field that pairs of lines name, the
\* value of the last such pair, and nothing else changed
Merged(pre, lines, d) ==
    \A nm \in OidNames \cup DOMAIN pre \cup DOMAIN d :
        LET idx == {i \in DOMAIN lines : Names(lines[i], nm)} IN
        IF idx # {}
        THEN nm \in DOMAIN d /\ d[nm] = PyStr(Split(lines[Latest(idx)], "=")[2])
        ELSE /\ nm \in DOMAIN d <=> nm \in DOMAIN pre
             /\ nm \in DOMAIN pre => d[nm] = pre[nm]

\* C1: whenever the response of update() holds a line without '=', update()
\* does not raise, and the cache is the prior cache overwritten by the
\* well-formed lines of the response only.
C1_MalformedLineSkipped ==
    (Answered /\ \E i \in DOMAIN LastLines : NoSeparator(LastLines[i]))
        => (last.exc = "" /\ Merged(last.pre, LastLines, _data))

\* C2, as first stated: an accessor returns a value exactly when its field is in
\* the cache, and fails with KeyError when it is not.
C2_ReturnsIffCached ==
    last.op \in ReadOps =>
        /\ last.exc = "" <=> FieldOf(last.op) \in DOMAIN _data
        /\ FieldOf(last.op) \notin DOMAIN _data => last.exc = "KeyError"

Numeric(v) == v.t = "int" \/ (v.t = "str" /\ IsIntLiteral(v.s))

NumberOf(v) == IF v.t = "int" THEN v.n ELSE IntLiteral(v.s)

\* C2, amended: an accessor fails with KeyError exactly when its field is
\* not in the cache, and then returns nothing, no default; with the field
\* cached, name returns the cached value, fan_state returns "On" for "2" and
\* "Off" otherwise, and cur_temp, setback_heat and hvac_state return the
\* cached number (in tenths for the two temperatures) when the cached value
\* is numeric and fail with ValueError when it is not.
C2_KeyErrorIffAbsent ==
    last.op \in ReadOps =>
        LET f == FieldOf(last.op) IN
        /\ last.exc = "KeyError" <=> f \notin DOMAIN _data
        /\ last.exc # "" => last.ret = None
        /\ f \in DOMAIN _data =>
             CASE last.op = "name" -> last.exc = "" /\ last.ret = _data[f]
               [] last.op = "fan_state" ->
                    /\ last.exc = ""
                    /\ last.ret = IF _data[f] = PyStr("2") THEN PyStr("On") ELSE PyStr("Off")
               [] last.op = "hvac_state" ->
                    IF Numeric(_data[f])
                    THEN last.exc = "" /\ last.ret = PyInt(NumberOf(_data[f]))
                    ELSE last.exc = "ValueError"
               [] OTHER ->
                    IF Numeric(_data[f])
                    THEN last.exc = "" /\ last.ret = PyFloatTenths(NumberOf(_data[f]))
                    ELSE last.exc = "ValueError"
        /\ (last.op = "cur_temp" /\ f \in DOMAIN _data /\ _data[f] = PyStr("712"))
             => last.ret = PyFloatTenths(712)
        /\ (last.op = "hvac_state" /\ f \in DOMAIN _data /\ _data[f] = PyStr("3"))
             => last.ret = PyInt(3)
        /\ (last.op = "fan_state" /\ f \in DOMAIN _data /\ _data[f] = PyStr("1"))
             => last.ret = PyStr("Off")

\* an accessor read a field that an answered update() did not bring
C2_Witness ==
    /\ last.op = "cur_temp"
    /\ refreshed
    /\ _data # EmptyDict
    /\ "AverageTemp" \notin DOMAIN _data
    /\ last.exc = "KeyError"

\* C3: as long as no update() has had a response, the cache is empty.
C3_EmptyUntilRefreshed == ~refreshed => _data = EmptyDict

\* C4: every value in the cache is a str.
C4_CacheHoldsStrings == \A k \in DOMAIN _data : _data[k].t = "str"

\* the response is empty or every one of its lines is OID<id>=<value>
WellFormed(lines) == lines = << "" >> \/ \A i \in DOMAIN lines : IsPair(lines[i])

\* C5: after update() is answered with a well-formed response it has not
\* raised, and the cache is the prior cache with every field that a pair of
\* the response names set to the value of the last such pair, pairs of
\* identifiers outside the table changing nothing; and the keys of the cache
\* are always field names of the table.
C5_RefreshMergesResponse ==
    /\ (Answered /\ WellFormed(LastLines))
          => (last.exc = "" /\ Merged(last.pre, LastLines, _data))
    /\ DOMAIN _data \subseteq OidNames

\* a well-formed response named a cached field twice, with different values,
\* and left another cached field alone
C5_Witness ==
    /\ Answered
    /\ WellFormed(LastLines)
    /\ \E nm \in DOMAIN last.pre : \E i, j \in DOMAIN LastLines :
          /\ i < j
          /\ Names(LastLines[i], nm) /\ Names(LastLines[j], nm)
          /\ LastLines[i] # LastLines[j]
          /\ _data[nm] # last.pre[nm]
    /\ \E nm \in DOMAIN last.pre : \A i \in DOMAIN LastLines : ~Names(LastLines[i], nm)

\* C6: the requests made are as many as the update() calls and the writes
\* together; update() makes one request, to /get, and a write makes one, to
\* /pdp, whether or not the request fails; an accessor read makes no request
\* and leaves the cache as it is.
C6_OneRequestPerOperation ==
    /\ nPost = nUpdate + nWrite
    /\ last.op = "update" =>
          nPost = last.prePost + 1 /\ sent.url = "http://" \o Host \o "/get"
    /\ last.op \in {"_set", "setback_heat.setter"} =>
          nPost = last.prePost + 1 /\ sent.url = "http://" \o Host \o "/pdp"
    /\ last.op \in ReadOps => nPost = last.prePost /\ _data = last.pre

\* an accessor found its field missing after update() had been called
C6_Witness ==
    /\ last.op \in ReadOps
    /\ last.exc = "KeyError"
    /\ nUpdate = 1
    /\ nPost = 1

\* val * 10 truncated toward zero, val given in hundredths
Truncated(h) ==
    CHOOSE n \in (h \div 10 - 1)..(h \div 10 + 1) :
        IF h >= 0 THEN 10 * n <= h /\ h < 10 * n + 10
        ELSE 10 * n >= h /\ h > 10 * n - 10

\* C7: after the setback is set to val, the cache holds under SetbackHeat
\* the integer val * 10 truncated toward zero (683 for 68.3, 680 for 68.05),
\* one request has been made, to /pdp, and its body holds the token
\* OID4.1.5=<that integer>.
C7_SetbackTruncates ==
    last.op = "setback_heat.setter" =>
        LET n == Truncated(last.val) IN
        /\ "SetbackHeat" \in DOMAIN _data
        /\ _data["SetbackHeat"] = PyInt(n)
        /\ last.val = 6830 => n = 683
        /\ last.val = 6805 => n = 680
        /\ nPost = last.prePost + 1
        /\ sent.url = "http://" \o Host \o "/pdp"
        /\ \E i \in DOMAIN Split(sent.body, "&") :
              Split(sent.body, "&")[i] = "OID4.1.5=" \o IntToStr(n)

\* the setback was set to 68.05
C7_Witness ==
    /\ last.op = "setback_heat.setter"
    /\ last.val = 6805
    /\ _data["SetbackHeat"] = PyInt(680)
    /\ sent.body = "OID4.1.5=680&submit=Submit"

\* the tokens of the pairs of kwargs whose names are in the table, in order
RECURSIVE ResolvedTokens(_)
ResolvedTokens(kw) ==
    IF Len(kw) = 0 THEN << >>
    ELSE LET here ==
                 IF \E i \in DOMAIN OIDS : OIDS[i].value = kw[1].key
                 THEN << "OID"
                         \o OIDS[CHOOSE i \in DOMAIN OIDS : OIDS[i].value = kw[1].key].oid
                         \o "=" \o quote_plus(py_str(kw[1].value)) >>
                 ELSE << >>
         IN here \o ResolvedTokens(Tail(kw))

\* C8: the body _set posts is the form-encoded tokens OID<id>=<value> of the
\* pairs whose names are in the table, one for each, followed by
\* submit=Submit, all joined by '&'; and _set leaves the cache as it is.
C8_BodyForm ==
    last.op = "_set" =>
        /\ sent.body = Join(ResolvedTokens(last.kwargs) \o << "submit=Submit" >>, "&")
        /\ _data = last.pre

\* C9: _get_oid of a field name of the table returns the identifier whose
\* entry is that name, so that looking the identifier up gives the name
\* back and every identifier is the answer for its own name; of any other
\* name it returns None; no identifier and no name is listed twice.
C9_TableBijection ==
    /\ \A i, j \in DOMAIN OIDS :
          (OIDS[i].oid = OIDS[j].oid \/ OIDS[i].value = OIDS[j].value) => i = j
    /\ last.op = "_get_oid" =>
          /\ last.exc = ""
          /\ last.name \notin OidNames => last.ret = None
          /\ \A i \in DOMAIN OIDS :
                last.name = OIDS[i].value =>
                    /\ last.ret = PyStr(OIDS[i].oid)
                    /\ OIDS_get(last.ret.s) = PyStr(last.name)

\* the name of the last entry of the table was looked up
C9_Witness ==
    /\ last.op = "_get_oid"
    /\ last.name = "LastUsageReset"
    /\ last.ret = PyStr("4.5.6")

\* C10: a call that raised the transport's error has left the cache as it
\* was before the call.
C10_FailedRequestKeepsCache == last.exc = "ConnectionError" => _data = last.pre

=============================================================================
